---- MODULE Spec2Model ----
(***************************************************************************)
(* Model of lwos: the cooperative task scheduler (src/src/scheduler.rs,    *)
(* src/src/task.rs) and the software count-down timers                     *)
(* (src/src/softtimer.rs).                                                 *)
(*                                                                         *)
(* Option<T> is modelled as a sequence: <<>> is None, <<x>> is Some(x).    *)
(* Result<T,E> is a record [ok |-> TRUE, val |-> v] or                     *)
(* [ok |-> FALSE, err |-> e]; Ok(()) is OkRes(0).                          *)
(* The variable res holds the name of the call made last and its return    *)
(* value; for process() the return value is the sequence of execute(id)    *)
(* calls the cycle made.                                                   *)
(* An Execute object is borrowed mutably for the lifetime of the scheduler *)
(* by the task that is built on it, so every add() passes a task on a new  *)
(* Execute object; they are numbered 1, 2, ... in creation order.          *)
(* usize is modelled UsizeBits wide (TLC integers are 32 bit, so the       *)
(* narrowest pointer width Rust supports is used).                         *)
(* The variable hist is a history variable, written only by the actions of *)
(* CountdownSpec: hist[h] is None, or Some of the threshold n that the     *)
(* last successful start(h, n, _) passed, the number k of update() calls   *)
(* made since, whether no other call changed timer h since, and whether    *)
(* disable(h) was called since.                                            *)
(* The variable conc is written only by the actions of RaceSpec, where a   *)
(* tick thread calls update() while an application thread calls start()    *)
(* and restart() and a reader thread calls get() and get_signal_state() on *)
(* the same timer, one memory access per step. conc.flag is the borrow     *)
(* flag of the timer's RefCell (0 unused, -1 borrowed mutably, n > 0       *)
(* borrowed n times): a Cell<isize> that borrow_mut(), borrow() and the    *)
(* drop of their guards read and write in two accesses. A failed borrow    *)
(* panics, which ends the thread. conc.calls counts the calls begun.       *)
(***************************************************************************)
EXTENDS Integers, Sequences, FiniteSets, TLC

VARIABLES
    SIZE,       \* const generic SIZE of the Scheduler, fixed at construction
    tasks,      \* Scheduler.tasks : [Option<&mut Task>; SIZE]
    nextExec,   \* number of the next Execute object the caller creates
    res,        \* the call made last and what it returned: [call, ret]
    timer,      \* SofTimers.timer : [Option<SoftTimerData>; MAX_SOFT_COUNTER]
    hist,       \* history: per handle, the last start() and the update() calls since
    conc        \* the threads of RaceSpec: position, local value, RefCell borrow flag

vars == <<SIZE, tasks, nextExec, res, timer, hist, conc>>

(***************************************************************************)
(* Bounds of the model                                                     *)
(***************************************************************************)
MaxSIZE == 3

MaxExec == 5

MaxLive == 2

MaxTicks == 4

MaxCalls == 4

(***************************************************************************)
(* Program constants                                                       *)
(***************************************************************************)
UsizeBits == 16

UsizeMod == 2 ^ UsizeBits

INVALID_ID == UsizeMod - 1

MAX_SOFT_COUNTER == 16

TaskState == {"Waiting", "Suspended", "Running"}

(***************************************************************************)
(* Option and Result                                                       *)
(***************************************************************************)
None == <<>>

Some(x) == <<x>>

IsNone(o) == o = <<>>

IsSome(o) == o # <<>>

Unwrap(o) == o[1]

OkRes(v) == [ok |-> TRUE, val |-> v]

ErrRes(e) == [ok |-> FALSE, err |-> e]

(***************************************************************************)
(* task.rs                                                                 *)
(***************************************************************************)
Task_init(state, id, func) == [state |-> state, id |-> id, func |-> func]

\* mutant: suspend() of a Suspended task makes it Running again
Task_suspend_toggle(task) ==
    [task EXCEPT !.state = IF @ = "Suspended" THEN "Running" ELSE "Suspended"]

Task_suspend(task) == [task EXCEPT !.state = "Suspended"]

Task_resume(task) == [task EXCEPT !.state = "Running"]

\* mutant: a Waiting task is executed as well
Task_process_waiting(task, id) ==
    IF task.state \in {"Running", "Waiting"}
    THEN <<[func |-> task.func, id |-> id]>>
    ELSE <<>>

\* The invocations of Execute::execute made by Task::process(id)
Task_process(task, id) ==
    CASE task.state = "Running"   -> <<[func |-> task.func, id |-> id]>>
      [] task.state = "Waiting"   -> <<>>
      [] task.state = "Suspended" -> <<>>

(***************************************************************************)
(* scheduler.rs                                                            *)
(***************************************************************************)
Scheduler_new(n) == [i \in 0 .. n - 1 |-> None]

\* mutant: the slots are visited from the highest index down
RECURSIVE ProcessDown(_, _, _)
ProcessDown(ts, n, index) ==
    IF index >= n
    THEN <<>>
    ELSE ProcessDown(ts, n, index + 1) \o
         (IF IsSome(ts[index]) THEN Task_process(Unwrap(ts[index]), index) ELSE <<>>)

\* for (index, item) in self.tasks.iter_mut().enumerate(), from index on
RECURSIVE ProcessFrom(_, _, _)
ProcessFrom(ts, n, index) ==
    IF index >= n
    THEN <<>>
    ELSE (IF IsSome(ts[index]) THEN Task_process(Unwrap(ts[index]), index) ELSE <<>>)
         \o ProcessFrom(ts, n, index + 1)

Scheduler_process(ts, n) == ProcessFrom(ts, n, 0)

\* mutant: the last empty slot instead of the first
PositionLast(ts, n) ==
    LET empty == {i \in 0 .. n - 1 : IsNone(ts[i])}
    IN  IF empty = {} THEN None
        ELSE Some(CHOOSE i \in empty : \A j \in empty : j <= i)

\* mutant: a full table yields slot 0
PositionWrap(ts, n) ==
    LET empty == {i \in 0 .. n - 1 : IsNone(ts[i])}
    IN  IF empty = {} THEN Some(0)
        ELSE Some(CHOOSE i \in empty : \A j \in empty : i <= j)

\* self.tasks.iter().position(|x| x.is_none())
Position(ts, n) ==
    LET empty == {i \in 0 .. n - 1 : IsNone(ts[i])}
    IN  IF empty = {} THEN None
        ELSE Some(CHOOSE i \in empty : \A j \in empty : i <= j)

\* mutant: the bound check accepts id = SIZE and reports an empty slot
Scheduler_get_le(ts, n, id) ==
    IF n >= id
    THEN IF id < n /\ IsSome(ts[id]) THEN OkRes(id) ELSE ErrRes("NoSuchTaskId")
    ELSE ErrRes("InvalidParameter")

\* Scheduler::get; Ok carries the slot the returned &mut Task points into
Scheduler_get(ts, n, id) ==
    IF n > id
    THEN IF IsSome(ts[id]) THEN OkRes(id) ELSE ErrRes("NoSuchTaskId")
    ELSE ErrRes("InvalidParameter")

\* mutant: the slots above id are cleared as well
ClearFrom(ts, id) == [i \in DOMAIN ts |-> IF i >= id THEN None ELSE ts[i]]

\* self.tasks[id] = Self::TASK_INIT_NONE
ClearSlot(ts, id) == [ts EXCEPT ![id] = None]

\* Ids the caller passes to remove and get
IdInputs == (0 .. MaxSIZE) \cup {INVALID_ID}

\* Ids the caller passes to Task::init
TaskIdInputs == {INVALID_ID}

\* What a call leaves in res
Called(call, ret) == [call |-> call, ret |-> ret]

(***************************************************************************)
(* softtimer.rs                                                            *)
(***************************************************************************)
Handles == 0 .. MAX_SOFT_COUNTER - 1

SofTimers_new == [h \in Handles |-> None]

\* The SoftTimerData that create() stores
NewTimerData ==
    [state |-> "Disabled", counter |-> 0, threshold |-> 0, auto_restart |-> FALSE]

\* mutant: a timer whose threshold is 0 never signals
get_signal_state_loaded(data) ==
    LET counter == data.counter
    IN  IF ("Running" = data.state) /\ (0 = counter) /\ (0 < data.threshold)
        THEN [signal |-> "Signaled",
              data   |-> IF data.auto_restart
                         THEN [data EXCEPT !.counter = data.threshold]
                         ELSE data]
        ELSE [signal |-> "NotSignaled", data |-> data]

\* mutant: the state of the timer is not looked at
get_signal_state_any(data) ==
    LET counter == data.counter
    IN  IF 0 = counter
        THEN [signal |-> "Signaled",
              data   |-> IF data.auto_restart
                         THEN [data EXCEPT !.counter = data.threshold]
                         ELSE data]
        ELSE [signal |-> "NotSignaled", data |-> data]

\* SoftTimerData::get_signal_state: the value returned and the SoftTimerData
\* it was called on, as the call leaves it
get_signal_state(data) ==
    LET counter == data.counter
    IN  IF ("Running" = data.state) /\ (0 = counter)
        THEN [signal |-> "Signaled",
              data   |-> IF data.auto_restart
                         THEN [data EXCEPT !.counter = data.threshold]
                         ELSE data]
        ELSE [signal |-> "NotSignaled", data |-> data]

\* mutant: the state of the timer is not tested
UpdateTimerAnyState(data) ==
    LET counter == data.counter
    IN  IF 0 < counter
        THEN [data EXCEPT !.counter = (data.counter + UsizeMod - 1) % UsizeMod]
        ELSE data

\* mutant: the counter is decremented without the test for zero
UpdateTimerNoTest(data) ==
    IF "Running" = data.state
    THEN [data EXCEPT !.counter = (data.counter + UsizeMod - 1) % UsizeMod]
    ELSE data

\* body of the loop of SofTimers::update for one occupied entry
UpdateTimer(data) ==
    IF "Running" = data.state
    THEN LET counter == data.counter
         IN  IF 0 < counter
             THEN [data EXCEPT !.counter = (data.counter + UsizeMod - 1) % UsizeMod]
             ELSE data
    ELSE data

\* mutant: the loop ends after the first occupied entry
SofTimers_update_first(tm) ==
    [h \in DOMAIN tm |->
        IF IsSome(tm[h]) /\ \A g \in DOMAIN tm : g < h => IsNone(tm[g])
        THEN Some(UpdateTimer(Unwrap(tm[h])))
        ELSE tm[h]]

\* SofTimers::update over the whole table
SofTimers_update(tm) ==
    [h \in DOMAIN tm |-> IF IsSome(tm[h]) THEN Some(UpdateTimer(Unwrap(tm[h]))) ELSE tm[h]]

\* SofTimers::get
SofTimers_get(tm, handle) ==
    IF handle < MAX_SOFT_COUNTER
    THEN IF IsSome(tm[handle])
         THEN LET data == Unwrap(tm[handle])
              IN  OkRes([state        |-> data.state,
                         counter      |-> data.counter,
                         auto_restart |-> data.auto_restart,
                         threshold    |-> data.threshold])
         ELSE ErrRes("InvalidParameter")
    ELSE ErrRes("NoSuchTimer")

\* mutant: the counter is not loaded with the new threshold
SofTimers_start_keep(tm, handle, threshold, auto_restart) ==
    IF handle < MAX_SOFT_COUNTER
    THEN IF IsSome(tm[handle])
         THEN [timer |-> [tm EXCEPT ![handle] =
                             Some([Unwrap(tm[handle]) EXCEPT !.threshold = threshold,
                                                             !.auto_restart = auto_restart,
                                                             !.state = "Running"])],
               res   |-> OkRes(0)]
         ELSE [timer |-> tm, res |-> ErrRes("NoSuchTimer")]
    ELSE [timer |-> tm, res |-> ErrRes("InvalidParameter")]

\* SofTimers::start: the table it leaves and the value it returns
SofTimers_start(tm, handle, threshold, auto_restart) ==
    IF handle < MAX_SOFT_COUNTER
    THEN IF IsSome(tm[handle])
         THEN [timer |-> [tm EXCEPT ![handle] =
                             Some([Unwrap(tm[handle]) EXCEPT !.threshold = threshold,
                                                             !.counter = threshold,
                                                             !.auto_restart = auto_restart,
                                                             !.state = "Running"])],
               res   |-> OkRes(0)]
         ELSE [timer |-> tm, res |-> ErrRes("NoSuchTimer")]
    ELSE [timer |-> tm, res |-> ErrRes("InvalidParameter")]

\* mutant: the counter is not reloaded
SofTimers_restart_keep(tm, handle) ==
    IF handle < MAX_SOFT_COUNTER
    THEN IF IsSome(tm[handle])
         THEN [timer |-> [tm EXCEPT ![handle] =
                             Some([Unwrap(tm[handle]) EXCEPT !.state = "Running"])],
               res   |-> OkRes(0)]
         ELSE [timer |-> tm, res |-> ErrRes("NoSuchTimer")]
    ELSE [timer |-> tm, res |-> ErrRes("InvalidParameter")]

\* mutant: a Disabled timer is refused with the Disabled error
SofTimers_restart_enabled(tm, handle) ==
    IF handle < MAX_SOFT_COUNTER
    THEN IF IsSome(tm[handle])
         THEN IF Unwrap(tm[handle]).state = "Disabled"
              THEN [timer |-> tm, res |-> ErrRes("Disabled")]
              ELSE [timer |-> [tm EXCEPT ![handle] =
                                  Some([Unwrap(tm[handle]) EXCEPT
                                           !.counter = Unwrap(tm[handle]).threshold,
                                           !.state = "Running"])],
                    res   |-> OkRes(0)]
         ELSE [timer |-> tm, res |-> ErrRes("NoSuchTimer")]
    ELSE [timer |-> tm, res |-> ErrRes("InvalidParameter")]

\* SofTimers::restart
SofTimers_restart(tm, handle) ==
    IF handle < MAX_SOFT_COUNTER
    THEN IF IsSome(tm[handle])
         THEN [timer |-> [tm EXCEPT ![handle] =
                             Some([Unwrap(tm[handle]) EXCEPT
                                      !.counter = Unwrap(tm[handle]).threshold,
                                      !.state = "Running"])],
               res   |-> OkRes(0)]
         ELSE [timer |-> tm, res |-> ErrRes("NoSuchTimer")]
    ELSE [timer |-> tm, res |-> ErrRes("InvalidParameter")]

\* mutant: stop clears the counter as well
SofTimers_stop_clear(tm, handle) ==
    IF handle < MAX_SOFT_COUNTER
    THEN IF IsSome(tm[handle])
         THEN [timer |-> [tm EXCEPT ![handle] =
                             Some([Unwrap(tm[handle]) EXCEPT !.state = "Stopped",
                                                             !.counter = 0])],
               res   |-> OkRes(0)]
         ELSE [timer |-> tm, res |-> ErrRes("NoSuchTimer")]
    ELSE [timer |-> tm, res |-> ErrRes("InvalidParameter")]

\* SofTimers::stop
SofTimers_stop(tm, handle) ==
    IF handle < MAX_SOFT_COUNTER
    THEN IF IsSome(tm[handle])
         THEN [timer |-> [tm EXCEPT ![handle] =
                             Some([Unwrap(tm[handle]) EXCEPT !.state = "Stopped"])],
               res   |-> OkRes(0)]
         ELSE [timer |-> tm, res |-> ErrRes("NoSuchTimer")]
    ELSE [timer |-> tm, res |-> ErrRes("InvalidParameter")]

\* mutant: the two errors are returned the other way round
SofTimers_disable_swapped(tm, handle) ==
    IF handle < MAX_SOFT_COUNTER
    THEN IF IsSome(tm[handle])
         THEN [timer |-> [tm EXCEPT ![handle] =
                             Some([Unwrap(tm[handle]) EXCEPT !.state = "Disabled"])],
               res   |-> OkRes(0)]
         ELSE [timer |-> tm, res |-> ErrRes("InvalidParameter")]
    ELSE [timer |-> tm, res |-> ErrRes("NoSuchTimer")]

\* SofTimers::disable
SofTimers_disable(tm, handle) ==
    IF handle < MAX_SOFT_COUNTER
    THEN IF IsSome(tm[handle])
         THEN [timer |-> [tm EXCEPT ![handle] =
                             Some([Unwrap(tm[handle]) EXCEPT !.state = "Disabled"])],
               res   |-> OkRes(0)]
         ELSE [timer |-> tm, res |-> ErrRes("NoSuchTimer")]
    ELSE [timer |-> tm, res |-> ErrRes("InvalidParameter")]

\* SofTimers::delete
SofTimers_delete(tm, handle) ==
    IF handle < MAX_SOFT_COUNTER /\ IsSome(tm[handle])
    THEN [timer |-> [tm EXCEPT ![handle] = None], res |-> OkRes(0)]
    ELSE [timer |-> tm, res |-> ErrRes("NoSuchTimer")]

\* mutant: a full table hands out slot 0 again
SofTimers_create_wrap(tm) ==
    LET pos == PositionWrap(tm, MAX_SOFT_COUNTER)
    IN  IF IsSome(pos)
        THEN [timer |-> [tm EXCEPT ![Unwrap(pos)] = Some(NewTimerData)],
              res   |-> OkRes(Unwrap(pos))]
        ELSE [timer |-> tm, res |-> ErrRes("LimitExceeded")]

\* SofTimers::create
SofTimers_create(tm) ==
    LET pos == Position(tm, MAX_SOFT_COUNTER)
    IN  IF IsSome(pos)
        THEN [timer |-> [tm EXCEPT ![Unwrap(pos)] = Some(NewTimerData)],
              res   |-> OkRes(Unwrap(pos))]
        ELSE [timer |-> tm, res |-> ErrRes("LimitExceeded")]

\* Handles the caller passes
HandleInputs == (0 .. MaxLive - 1) \cup {MAX_SOFT_COUNTER}

\* Thresholds the caller passes to start
ThresholdInputs == {0, 2}

LiveTimers == {h \in Handles : IsSome(timer[h])}

\* The threads that share one timer in RaceSpec
Procs == {"tick", "app", "reader"}

\* No call is in progress and the RefCell of the timer is not borrowed
NoThreads ==
    [pc   |-> [p \in Procs |-> "idle"],
     loc  |-> [p \in Procs |-> 0],
     flag |-> 0,
     call |-> [name |-> "none", threshold |-> 0, auto_restart |-> FALSE],
     copy |-> NewTimerData,
     calls |-> 0]

\* No start() was called yet on any handle
NoHistory == [h \in Handles |-> None]

Init ==
    /\ SIZE \in 1 .. MaxSIZE
    /\ tasks = Scheduler_new(SIZE)
    /\ nextExec = 1
    /\ res = Called("new", OkRes(0))
    /\ timer = SofTimers_new
    /\ hist = NoHistory
    /\ conc = NoThreads

\* let mut t = Task::init(state, id, &mut executer); scheduler.add(&mut t)
Add(state, id) ==
    /\ nextExec <= MaxExec
    /\ LET task == Task_init(state, id, nextExec)
           pos  == Position(tasks, SIZE)
       IN  IF IsSome(pos)
           THEN /\ tasks' = [tasks EXCEPT ![Unwrap(pos)] = Some(task)]
                /\ res' = Called("add", OkRes(Unwrap(pos)))
           ELSE /\ tasks' = tasks
                /\ res' = Called("add", ErrRes("LimitExceeded"))
    /\ nextExec' = nextExec + 1
    /\ UNCHANGED <<SIZE, timer, hist, conc>>

\* scheduler.remove(id)
Remove(id) ==
    /\ LET r == Scheduler_get(tasks, SIZE, id)
       IN  IF r.ok
           THEN /\ tasks' = ClearSlot(tasks, id)
                /\ res' = Called("remove", OkRes(0))
           ELSE /\ tasks' = tasks
                /\ res' = Called("remove", r)
    /\ UNCHANGED <<SIZE, nextExec, timer, hist, conc>>

\* scheduler.get(id)
Get(id) ==
    /\ res' = Called("get", Scheduler_get(tasks, SIZE, id))
    /\ UNCHANGED <<SIZE, tasks, nextExec, timer, hist, conc>>

\* scheduler.get(id) and, when it is Ok(task), task.suspend()
Suspend(id) ==
    /\ LET r == Scheduler_get(tasks, SIZE, id)
       IN  /\ res' = Called("suspend", r)
           /\ IF r.ok
              THEN tasks' = [tasks EXCEPT ![r.val] = Some(Task_suspend(Unwrap(tasks[r.val])))]
              ELSE tasks' = tasks
    /\ UNCHANGED <<SIZE, nextExec, timer, hist, conc>>

\* scheduler.get(id) and, when it is Ok(task), task.resume()
Resume(id) ==
    /\ LET r == Scheduler_get(tasks, SIZE, id)
       IN  /\ res' = Called("resume", r)
           /\ IF r.ok
              THEN tasks' = [tasks EXCEPT ![r.val] = Some(Task_resume(Unwrap(tasks[r.val])))]
              ELSE tasks' = tasks
    /\ UNCHANGED <<SIZE, nextExec, timer, hist, conc>>

\* scheduler.process(); res.ret lists the execute(id) calls in call order
Process ==
    /\ res' = Called("process", Scheduler_process(tasks, SIZE))
    /\ UNCHANGED <<SIZE, tasks, nextExec, timer, hist, conc>>

Next ==
    \/ \E state \in TaskState, id \in TaskIdInputs : Add(state, id)
    \/ \E id \in IdInputs : Remove(id)
    \/ \E id \in IdInputs : Get(id)
    \/ \E id \in IdInputs : Suspend(id)
    \/ \E id \in IdInputs : Resume(id)
    \/ Process

Spec == Init /\ [][Next]_vars

\* timers.create()
Create ==
    /\ LET r == SofTimers_create(timer)
       IN  timer' = r.timer /\ res' = Called("create", r.res)
    /\ UNCHANGED <<SIZE, tasks, nextExec, hist, conc>>

\* timers.create() while fewer than MaxLive timers exist
BoundedCreate ==
    /\ Cardinality(LiveTimers) < MaxLive
    /\ Create

\* timers.delete(handle)
Delete(handle) ==
    /\ LET r == SofTimers_delete(timer, handle)
       IN  timer' = r.timer /\ res' = Called("delete", r.res)
    /\ UNCHANGED <<SIZE, tasks, nextExec, hist, conc>>

\* timers.start(handle, threshold, auto_restart)
Start(handle, threshold, auto_restart) ==
    /\ LET r == SofTimers_start(timer, handle, threshold, auto_restart)
       IN  timer' = r.timer /\ res' = Called("start", r.res)
    /\ UNCHANGED <<SIZE, tasks, nextExec, hist, conc>>

\* timers.restart(handle)
Restart(handle) ==
    /\ LET r == SofTimers_restart(timer, handle)
       IN  timer' = r.timer /\ res' = Called("restart", r.res)
    /\ UNCHANGED <<SIZE, tasks, nextExec, hist, conc>>

\* timers.stop(handle)
Stop(handle) ==
    /\ LET r == SofTimers_stop(timer, handle)
       IN  timer' = r.timer /\ res' = Called("stop", r.res)
    /\ UNCHANGED <<SIZE, tasks, nextExec, hist, conc>>

\* timers.disable(handle)
Disable(handle) ==
    /\ LET r == SofTimers_disable(timer, handle)
       IN  timer' = r.timer /\ res' = Called("disable", r.res)
    /\ UNCHANGED <<SIZE, tasks, nextExec, hist, conc>>

\* timers.update()
Update ==
    /\ timer' = SofTimers_update(timer)
    /\ res' = Called("update", OkRes(0))
    /\ UNCHANGED <<SIZE, tasks, nextExec, hist, conc>>

\* timers.get(handle)
TimerGet(handle) ==
    /\ res' = Called("timer_get", SofTimers_get(timer, handle))
    /\ UNCHANGED <<SIZE, tasks, nextExec, timer, hist, conc>>

\* timers.get(handle) and, when it is Ok(data), data.get_signal_state():
\* the registry hands out its timers only as the copy that get() builds.
\* Ok carries the SignalState returned and the copy as the call leaves it.
GetSignalState(handle) ==
    /\ LET r == SofTimers_get(timer, handle)
       IN  IF r.ok
           THEN res' = Called("get_signal_state", OkRes(get_signal_state(r.val)))
           ELSE res' = Called("get_signal_state", r)
    /\ UNCHANGED <<SIZE, tasks, nextExec, timer, hist, conc>>

TimerNext ==
    \/ BoundedCreate
    \/ \E handle \in HandleInputs : Delete(handle)
    \/ \E handle \in HandleInputs, threshold \in ThresholdInputs,
          auto_restart \in BOOLEAN : Start(handle, threshold, auto_restart)
    \/ \E handle \in HandleInputs : Restart(handle)
    \/ \E handle \in HandleInputs : Stop(handle)
    \/ \E handle \in HandleInputs : Disable(handle)
    \/ Update
    \/ \E handle \in HandleInputs : TimerGet(handle)
    \/ \E handle \in HandleInputs : GetSignalState(handle)

\* SofTimers::new(), next to a Scheduler<1> that the timer calls never touch
TimerInit ==
    /\ SIZE = 1
    /\ tasks = Scheduler_new(SIZE)
    /\ nextExec = 1
    /\ res = Called("new", OkRes(0))
    /\ timer = SofTimers_new
    /\ hist = NoHistory
    /\ conc = NoThreads

TimerSpec == TimerInit /\ [][TimerNext]_vars

(***************************************************************************)
(* The countdown scenario of tests::softtimer_update: two timers, started  *)
(* with thresholds 0, 1 or 3, ticked by update() and restarted; hist       *)
(* records per handle the last start() and the calls since.                *)
(***************************************************************************)
\* Handles of the two timers of the scenario
CountdownHandles == {0, 1}

\* Thresholds the scenario passes to start
CountdownThresholds == {0, 1, 3}

\* What hist records of a successful start(h, n, auto_restart)
Started(n, auto_restart) ==
    [n |-> n, auto |-> auto_restart, k |-> 0, alone |-> TRUE, off |-> FALSE]

\* timers.create() while a handle of the scenario is free
CountdownCreate ==
    /\ \E h \in CountdownHandles : IsNone(timer[h])
    /\ LET r == SofTimers_create(timer)
       IN  /\ timer' = r.timer
           /\ res' = Called("create", r.res)
           /\ hist' = IF r.res.ok THEN [hist EXCEPT ![r.res.val] = None] ELSE hist
    /\ UNCHANGED <<SIZE, tasks, nextExec, conc>>

\* timers.start(handle, threshold, auto_restart)
CountdownStart(handle, threshold, auto_restart) ==
    /\ LET r == SofTimers_start(timer, handle, threshold, auto_restart)
       IN  /\ timer' = r.timer
           /\ res' = Called("start", r.res)
           /\ hist' = IF r.res.ok
                      THEN [hist EXCEPT ![handle] = Some(Started(threshold, auto_restart))]
                      ELSE hist
    /\ UNCHANGED <<SIZE, tasks, nextExec, conc>>

\* timers.update(), at most MaxTicks times after a start()
CountdownUpdate ==
    /\ \A h \in Handles :
          (IsSome(hist[h]) /\ Unwrap(hist[h]).alone) => Unwrap(hist[h]).k < MaxTicks
    /\ timer' = SofTimers_update(timer)
    /\ res' = Called("update", OkRes(0))
    /\ hist' = [h \in Handles |->
                   IF IsSome(hist[h]) /\ Unwrap(hist[h]).alone
                   THEN Some([Unwrap(hist[h]) EXCEPT !.k = @ + 1])
                   ELSE hist[h]]
    /\ UNCHANGED <<SIZE, tasks, nextExec, conc>>

\* timers.restart(handle)
CountdownRestart(handle) ==
    /\ LET r == SofTimers_restart(timer, handle)
       IN  /\ timer' = r.timer
           /\ res' = Called("restart", r.res)
           /\ hist' = IF r.res.ok /\ IsSome(hist[handle])
                      THEN [hist EXCEPT ![handle] =
                               Some([Unwrap(hist[handle]) EXCEPT !.alone = FALSE])]
                      ELSE hist
    /\ UNCHANGED <<SIZE, tasks, nextExec, conc>>

\* timers.disable(handle)
CountdownDisable(handle) ==
    /\ LET r == SofTimers_disable(timer, handle)
       IN  /\ timer' = r.timer
           /\ res' = Called("disable", r.res)
           /\ hist' = IF r.res.ok /\ IsSome(hist[handle])
                      THEN [hist EXCEPT ![handle] =
                               Some([Unwrap(hist[handle]) EXCEPT !.alone = FALSE,
                                                                 !.off = TRUE])]
                      ELSE hist
    /\ UNCHANGED <<SIZE, tasks, nextExec, conc>>

CountdownNext ==
    \/ CountdownCreate
    \/ \E handle \in CountdownHandles, threshold \in CountdownThresholds,
          auto_restart \in BOOLEAN : CountdownStart(handle, threshold, auto_restart)
    \/ CountdownUpdate
    \/ \E handle \in CountdownHandles : CountdownRestart(handle)
    \/ \E handle \in CountdownHandles : TimerGet(handle)
    \/ \E handle \in CountdownHandles : GetSignalState(handle)

CountdownSpec == TimerInit /\ [][CountdownNext]_vars

(***************************************************************************)
(* A timer that is started, ticked, disabled with disable() and started or *)
(* restarted again, next to a timer that is only created.                  *)
(***************************************************************************)
\* Handle of the timer that is disabled
DisableHandles == {0}

DisableNext ==
    \/ CountdownCreate
    \/ \E handle \in DisableHandles, threshold \in CountdownThresholds,
          auto_restart \in BOOLEAN : CountdownStart(handle, threshold, auto_restart)
    \/ CountdownUpdate
    \/ \E handle \in DisableHandles : CountdownRestart(handle)
    \/ \E handle \in DisableHandles : CountdownDisable(handle)
    \/ \E handle \in DisableHandles : GetSignalState(handle)

DisableSpec == TimerInit /\ [][DisableNext]_vars

(***************************************************************************)
(* The registry filled to its capacity: create() without a bound, and      *)
(* delete() and start() on the first, a middle and the last handle.        *)
(***************************************************************************)
\* Handles the caller deletes and starts
RegistryHandles == {0, 7, MAX_SOFT_COUNTER - 1}

RegistryNext ==
    \/ Create
    \/ \E handle \in RegistryHandles : Delete(handle)
    \/ \E handle \in RegistryHandles, threshold \in ThresholdInputs,
          auto_restart \in BOOLEAN : Start(handle, threshold, auto_restart)

RegistrySpec == TimerInit /\ [][RegistryNext]_vars

(***************************************************************************)
(* One timer shared by three threads: the tick source calls update(), the  *)
(* application calls start() and restart(), a reader calls get() and       *)
(* get_signal_state() on the copy. Every step is one access to the         *)
(* counter, to a field of the timer or to the borrow flag of its RefCell.  *)
(* All three take the table itself with borrow() only; that is left out.   *)
(* The threads begin MaxCalls calls between them.                          *)
(***************************************************************************)
\* timers.create() on a new registry, and the handle it returns
RaceCreated == SofTimers_create(SofTimers_new)

RaceHandle == RaceCreated.res.val

RaceData == Unwrap(timer[RaceHandle])

\* Thread p moves to pc with local value loc
Goto(p, pc, loc) == [conc EXCEPT !.pc[p] = pc, !.loc[p] = loc]

\* Thread p begins a call: it moves to pc with local value loc
Begin(p, pc, loc) == [Goto(p, pc, loc) EXCEPT !.calls = @ + 1]

\* update(): t.borrow_mut() reads the borrow flag
TickUpdate ==
    /\ conc.pc["tick"] = "idle"
    /\ conc.calls < MaxCalls
    /\ conc' = Begin("tick", "borrow_set", conc.flag)
    /\ UNCHANGED <<SIZE, tasks, nextExec, res, timer, hist>>

\* start(handle, threshold, auto_restart): t.borrow_mut() reads the borrow flag
AppStart(threshold, auto_restart) ==
    /\ conc.pc["app"] = "idle"
    /\ conc.calls < MaxCalls
    /\ conc' = [Begin("app", "borrow_set", conc.flag) EXCEPT
                   !.call = [name |-> "start", threshold |-> threshold,
                             auto_restart |-> auto_restart]]
    /\ UNCHANGED <<SIZE, tasks, nextExec, res, timer, hist>>

\* restart(handle): t.borrow_mut() reads the borrow flag
AppRestart ==
    /\ conc.pc["app"] = "idle"
    /\ conc.calls < MaxCalls
    /\ conc' = [Begin("app", "borrow_set", conc.flag) EXCEPT
                   !.call = [name |-> "restart", threshold |-> 0,
                             auto_restart |-> FALSE]]
    /\ UNCHANGED <<SIZE, tasks, nextExec, res, timer, hist>>

\* Where the body of the call of thread p begins
Entry(p) ==
    CASE p = "tick" -> "state"
      [] p = "app" /\ conc.call.name = "start" -> "threshold"
      [] p = "app" /\ conc.call.name = "restart" -> "reload"

\* t.borrow_mut(): the flag that was read is UNUSED and is set to writing,
\* or the call panics
BorrowMutSet(p) ==
    /\ conc.pc[p] = "borrow_set"
    /\ conc' = IF conc.loc[p] = 0
               THEN [Goto(p, Entry(p), 0) EXCEPT !.flag = 0 - 1]
               ELSE Goto(p, "panicked", 0)
    /\ UNCHANGED <<SIZE, tasks, nextExec, res, timer, hist>>

\* update(): State::Running == data.state
TickState ==
    /\ conc.pc["tick"] = "state"
    /\ conc' = Goto("tick", IF "Running" = RaceData.state THEN "load" ELSE "drop_get", 0)
    /\ UNCHANGED <<SIZE, tasks, nextExec, res, timer, hist>>

\* update(): let counter = data.counter.load(); if 0 < counter
TickLoad ==
    /\ conc.pc["tick"] = "load"
    /\ LET counter == RaceData.counter
       IN  conc' = Goto("tick", IF 0 < counter THEN "fetch_sub" ELSE "drop_get", counter)
    /\ UNCHANGED <<SIZE, tasks, nextExec, res, timer, hist>>

\* update(): data.counter.fetch_sub(1), wrapping as AtomicUsize does
TickFetchSub ==
    /\ conc.pc["tick"] = "fetch_sub"
    /\ timer' = [timer EXCEPT ![RaceHandle] =
                    Some([RaceData EXCEPT !.counter = (@ + UsizeMod - 1) % UsizeMod])]
    /\ conc' = Goto("tick", "drop_get", 0)
    /\ UNCHANGED <<SIZE, tasks, nextExec, res, hist>>

\* start(): data.threshold = threshold
AppThreshold ==
    /\ conc.pc["app"] = "threshold"
    /\ timer' = [timer EXCEPT ![RaceHandle] =
                    Some([RaceData EXCEPT !.threshold = conc.call.threshold])]
    /\ conc' = Goto("app", "counter", 0)
    /\ UNCHANGED <<SIZE, tasks, nextExec, res, hist>>

\* start(): data.counter.store(threshold)
AppCounter ==
    /\ conc.pc["app"] = "counter"
    /\ timer' = [timer EXCEPT ![RaceHandle] =
                    Some([RaceData EXCEPT !.counter = conc.call.threshold])]
    /\ conc' = Goto("app", "auto_restart", 0)
    /\ UNCHANGED <<SIZE, tasks, nextExec, res, hist>>

\* start(): data.auto_restart = auto_restart
AppAutoRestart ==
    /\ conc.pc["app"] = "auto_restart"
    /\ timer' = [timer EXCEPT ![RaceHandle] =
                    Some([RaceData EXCEPT !.auto_restart = conc.call.auto_restart])]
    /\ conc' = Goto("app", "running", 0)
    /\ UNCHANGED <<SIZE, tasks, nextExec, res, hist>>

\* restart(): data.counter.store(data.threshold)
AppReload ==
    /\ conc.pc["app"] = "reload"
    /\ timer' = [timer EXCEPT ![RaceHandle] =
                    Some([RaceData EXCEPT !.counter = RaceData.threshold])]
    /\ conc' = Goto("app", "running", 0)
    /\ UNCHANGED <<SIZE, tasks, nextExec, res, hist>>

\* start() and restart(): data.state = State::Running
AppRunning ==
    /\ conc.pc["app"] = "running"
    /\ timer' = [timer EXCEPT ![RaceHandle] = Some([RaceData EXCEPT !.state = "Running"])]
    /\ conc' = Goto("app", "drop_get", 0)
    /\ UNCHANGED <<SIZE, tasks, nextExec, res, hist>>

\* The guard of thread p is dropped: the borrow flag is read
DropGet(p) ==
    /\ conc.pc[p] = "drop_get"
    /\ conc' = Goto(p, "drop_set", conc.flag)
    /\ UNCHANGED <<SIZE, tasks, nextExec, res, timer, hist>>

\* The RefMut of thread p is dropped: the flag is set to one more than was
\* read, and the call returns
DropMutSet(p) ==
    /\ p # "reader"
    /\ conc.pc[p] = "drop_set"
    /\ conc' = [Goto(p, "idle", 0) EXCEPT
                   !.flag = conc.loc[p] + 1,
                   !.call = IF p = "app" THEN NoThreads.call ELSE @]
    /\ res' = Called(IF p = "tick" THEN "update" ELSE conc.call.name, OkRes(0))
    /\ UNCHANGED <<SIZE, tasks, nextExec, timer, hist>>

\* get(handle): t.borrow() reads the borrow flag and adds one
ReaderGet ==
    /\ conc.pc["reader"] = "idle"
    /\ conc.calls < MaxCalls
    /\ conc' = Begin("reader", "borrow_set", conc.flag + 1)
    /\ UNCHANGED <<SIZE, tasks, nextExec, res, timer, hist>>

\* get(): t.borrow() sets the flag when the new value is a reading one, or
\* the call panics
ReaderBorrowSet ==
    /\ conc.pc["reader"] = "borrow_set"
    /\ conc' = IF conc.loc["reader"] > 0
               THEN [Goto("reader", "copy_state", 0) EXCEPT !.flag = conc.loc["reader"]]
               ELSE Goto("reader", "panicked", 0)
    /\ UNCHANGED <<SIZE, tasks, nextExec, res, timer, hist>>

\* get(): state: data.state
ReaderCopyState ==
    /\ conc.pc["reader"] = "copy_state"
    /\ conc' = [Goto("reader", "copy_counter", 0) EXCEPT !.copy.state = RaceData.state]
    /\ UNCHANGED <<SIZE, tasks, nextExec, res, timer, hist>>

\* get(): counter: AtomicUsize::new(data.counter.load())
ReaderCopyCounter ==
    /\ conc.pc["reader"] = "copy_counter"
    /\ conc' = [Goto("reader", "copy_auto_restart", 0) EXCEPT
                   !.copy.counter = RaceData.counter]
    /\ UNCHANGED <<SIZE, tasks, nextExec, res, timer, hist>>

\* get(): auto_restart: data.auto_restart
ReaderCopyAutoRestart ==
    /\ conc.pc["reader"] = "copy_auto_restart"
    /\ conc' = [Goto("reader", "copy_threshold", 0) EXCEPT
                   !.copy.auto_restart = RaceData.auto_restart]
    /\ UNCHANGED <<SIZE, tasks, nextExec, res, timer, hist>>

\* get(): threshold: data.threshold
ReaderCopyThreshold ==
    /\ conc.pc["reader"] = "copy_threshold"
    /\ conc' = [Goto("reader", "drop_get", 0) EXCEPT
                   !.copy.threshold = RaceData.threshold]
    /\ UNCHANGED <<SIZE, tasks, nextExec, res, timer, hist>>

\* get(): the Ref is dropped: the flag is set to one less than was read
ReaderDropSet ==
    /\ conc.pc["reader"] = "drop_set"
    /\ conc' = [Goto("reader", "signal", 0) EXCEPT !.flag = conc.loc["reader"] - 1]
    /\ UNCHANGED <<SIZE, tasks, nextExec, res, timer, hist>>

\* get_signal_state() on the copy that get() returned: its load and its store
\* reach the counter of the copy only
ReaderSignal ==
    /\ conc.pc["reader"] = "signal"
    /\ res' = Called("get_signal_state", OkRes(get_signal_state(conc.copy)))
    /\ conc' = [Goto("reader", "idle", 0) EXCEPT !.copy = NoThreads.copy]
    /\ UNCHANGED <<SIZE, tasks, nextExec, timer, hist>>

RaceNext ==
    \/ TickUpdate
    \/ \E threshold \in ThresholdInputs, auto_restart \in BOOLEAN :
          AppStart(threshold, auto_restart)
    \/ AppRestart
    \/ \E p \in {"tick", "app"} : BorrowMutSet(p)
    \/ TickState
    \/ TickLoad
    \/ TickFetchSub
    \/ AppThreshold
    \/ AppCounter
    \/ AppAutoRestart
    \/ AppReload
    \/ AppRunning
    \/ \E p \in Procs : DropGet(p)
    \/ \E p \in {"tick", "app"} : DropMutSet(p)
    \/ ReaderGet
    \/ ReaderBorrowSet
    \/ ReaderCopyState
    \/ ReaderCopyCounter
    \/ ReaderCopyAutoRestart
    \/ ReaderCopyThreshold
    \/ ReaderDropSet
    \/ ReaderSignal

\* SofTimers::new() and one create(), before the threads run
RaceInit ==
    /\ SIZE = 1
    /\ tasks = Scheduler_new(SIZE)
    /\ nextExec = 1
    /\ res = Called("create", RaceCreated.res)
    /\ timer = RaceCreated.timer
    /\ hist = NoHistory
    /\ conc = NoThreads

RaceSpec == RaceInit /\ [][RaceNext]_vars

(***************************************************************************)
(* Helpers of the properties                                               *)
(***************************************************************************)
Slots == 0 .. SIZE - 1

Occupied(ts) == {i \in DOMAIN ts : IsSome(ts[i])}

Funcs(ts) == {Unwrap(ts[i]).func : i \in Occupied(ts)}

RunIds(run) == {run[j].id : j \in 1 .. Len(run)}

RunFuncs(run) == {run[j].func : j \in 1 .. Len(run)}

IsRunning(ts, i) == IsSome(ts[i]) /\ Unwrap(ts[i]).state = "Running"

Ascending(run) == \A j, k \in 1 .. Len(run) : j < k => run[j].id < run[k].id

(***************************************************************************)
(* C1: one process() cycle invokes the behaviour of exactly the occupied   *)
(* slots whose task is Running, once each, in ascending slot order, and    *)
(* passes the slot index as the id; empty slots cause no invocation.       *)
(***************************************************************************)
C1_RoundRobinOrder ==
    res.call = "process" =>
        /\ Ascending(res.ret)
        /\ \A i \in Slots : IsRunning(tasks, i) <=> i \in RunIds(res.ret)
        /\ \A j \in 1 .. Len(res.ret) :
              /\ res.ret[j].id \in Occupied(tasks)
              /\ res.ret[j].func = Unwrap(tasks[res.ret[j].id]).func

\* tasks A, B, C added in that order to an empty scheduler ran as A, B, C
C1_Witness ==
    /\ res.call = "process"
    /\ SIZE = 3
    /\ \A i \in 0 .. 2 : IsRunning(tasks, i) /\ Unwrap(tasks[i]).func = i + 1
    /\ res.ret = <<[func |-> 1, id |-> 0], [func |-> 2, id |-> 1], [func |-> 3, id |-> 2]>>

(***************************************************************************)
(* C2: process() never invokes the behaviour of a task that is Suspended   *)
(* or Waiting and invokes the Running ones in slot order; a successful     *)
(* get(id).suspend() leaves task id Suspended, so the next process() skips *)
(* it, and a successful get(id).resume() leaves it Running, so the next    *)
(* process() invokes it again.                                             *)
(***************************************************************************)
C2_Step ==
    /\ res'.call = "process" =>
          /\ \A i \in Occupied(tasks) :
                Unwrap(tasks[i]).state \in {"Suspended", "Waiting"} =>
                    /\ i \notin RunIds(res'.ret)
                    /\ Unwrap(tasks[i]).func \notin RunFuncs(res'.ret)
          /\ \A i \in Slots : IsRunning(tasks, i) => i \in RunIds(res'.ret)
          /\ Ascending(res'.ret)
    /\ \A id \in IdInputs :
          (res'.call = "suspend" /\ Suspend(id) /\ res'.ret.ok) =>
              /\ Unwrap(tasks'[id]).state = "Suspended"
              /\ \A j \in Slots \ {id} : tasks'[j] = tasks[j]
    /\ \A id \in IdInputs :
          (res'.call = "resume" /\ Resume(id) /\ res'.ret.ok) =>
              /\ Unwrap(tasks'[id]).state = "Running"
              /\ \A j \in Slots \ {id} : tasks'[j] = tasks[j]

C2_SuspendedNeverRuns == [][C2_Step]_vars

\* the middle of three tasks is suspended and the cycle ran the first and third
C2_Witness ==
    /\ res.call = "process"
    /\ SIZE = 3
    /\ IsRunning(tasks, 0) /\ IsRunning(tasks, 2)
    /\ IsSome(tasks[1]) /\ Unwrap(tasks[1]).state = "Suspended"
    /\ res.ret = <<[func |-> Unwrap(tasks[0]).func, id |-> 0],
                   [func |-> Unwrap(tasks[2]).func, id |-> 2]>>

(***************************************************************************)
(* C3: when a slot is empty, add() stores the task in the empty slot with  *)
(* the smallest index, returns that index and leaves the other slots       *)
(* unchanged; an add() right after a successful remove() that left slot i  *)
(* empty with no empty slot below it returns i.                            *)
(***************************************************************************)
C3_Step ==
    \A state \in TaskState, id \in TaskIdInputs :
        (res'.call = "add" /\ Add(state, id) /\ Occupied(tasks) # Slots) =>
            LET empty == Slots \ Occupied(tasks)
                m     == CHOOSE i \in empty : \A j \in empty : i <= j
            IN  /\ res'.ret = OkRes(m)
                /\ tasks'[m] = Some([state |-> state, id |-> id, func |-> nextExec])
                /\ \A j \in Slots \ {m} : tasks'[j] = tasks[j]
                /\ \A i \in Slots :
                      (/\ res.call = "remove" /\ res.ret.ok
                       /\ IsNone(tasks[i])
                       /\ \A j \in 0 .. i - 1 : IsSome(tasks[j]))
                          => res'.ret.val = i

C3_AddLowestFree == [][C3_Step]_vars

\* id 1 of three tasks was removed and the add that followed returned 1
C3_Witness ==
    /\ res = Called("add", OkRes(1))
    /\ SIZE = 3
    /\ Occupied(tasks) = Slots
    /\ Unwrap(tasks[1]).func = 4
    /\ Unwrap(tasks[0]).func = 1 /\ Unwrap(tasks[2]).func = 3

(***************************************************************************)
(* C4: for every capacity, the first SIZE add() calls on a new scheduler   *)
(* return 0, 1, ..., SIZE-1 in that order; an add() made while every slot  *)
(* is occupied returns Err(LimitExceeded) and changes no slot.             *)
(* The executors are numbered in creation order, so the n-th add() passes  *)
(* executor n = nextExec; "slots 0..n-2 hold executors 1..n-1" says that   *)
(* the adds before the n-th succeeded and no remove came between them.     *)
(***************************************************************************)
C4_Step ==
    \A state \in TaskState, id \in TaskIdInputs :
        (res'.call = "add" /\ Add(state, id)) =>
            /\ (\A k \in 1 .. nextExec - 1 :
                    k - 1 \in Occupied(tasks) /\ Unwrap(tasks[k - 1]).func = k)
                  => IF nextExec <= SIZE
                     THEN /\ res'.ret = OkRes(nextExec - 1)
                          /\ Occupied(tasks') = 0 .. nextExec - 1
                     ELSE res'.ret = ErrRes("LimitExceeded")
            /\ Occupied(tasks) = Slots =>
                  /\ res'.ret = ErrRes("LimitExceeded")
                  /\ tasks' = tasks

C4_Capacity == [][C4_Step]_vars

\* the (SIZE+1)-th add on a scheduler of capacity 3 filled by 3 adds failed
C4_Witness ==
    /\ res = Called("add", ErrRes("LimitExceeded"))
    /\ SIZE = 3
    /\ nextExec = SIZE + 2
    /\ \A i \in Slots : IsSome(tasks[i]) /\ Unwrap(tasks[i]).func = i + 1

(***************************************************************************)
(* C5: remove(id) and get(id) return Err(InvalidParameter) when            *)
(* id >= SIZE (INVALID_ID included) and Err(NoSuchTaskId) when id < SIZE   *)
(* and the slot is empty; the slot table is unchanged in both cases.       *)
(***************************************************************************)
C5_Step ==
    \A id \in IdInputs :
        (res'.call \in {"remove", "get"} /\ (Remove(id) \/ Get(id))) =>
            /\ id >= SIZE =>
                  res'.ret = ErrRes("InvalidParameter") /\ tasks' = tasks
            /\ (id < SIZE /\ IsNone(tasks[id])) =>
                  res'.ret = ErrRes("NoSuchTaskId") /\ tasks' = tasks

C5_RemoveGetErrors == [][C5_Step]_vars

\* a remove with an id out of range was refused by a scheduler that holds a task
C5_Witness ==
    /\ res = Called("remove", ErrRes("InvalidParameter"))
    /\ Occupied(tasks) # {}

(***************************************************************************)
(* C6: remove(id) of an occupied slot returns Ok, empties that slot and    *)
(* leaves the other slots unchanged; a remove() of the emptied slot right  *)
(* after it returns Err(NoSuchTaskId); process() invokes only behaviours   *)
(* held by a slot, and a behaviour enters a slot only through add().       *)
(***************************************************************************)
C6_Step ==
    /\ \A id \in IdInputs :
          (res'.call = "remove" /\ Remove(id)) =>
              /\ (id < SIZE /\ IsSome(tasks[id])) =>
                    /\ res'.ret = OkRes(0)
                    /\ IsNone(tasks'[id])
                    /\ \A j \in Slots \ {id} : tasks'[j] = tasks[j]
                    /\ Unwrap(tasks[id]).func \notin Funcs(tasks')
              /\ (res.call = "remove" /\ res.ret.ok /\ id < SIZE /\ IsNone(tasks[id])) =>
                    res'.ret = ErrRes("NoSuchTaskId")
    /\ res'.call = "process" => RunFuncs(res'.ret) \subseteq Funcs(tasks)
    /\ \A f \in Funcs(tasks') \ Funcs(tasks) :
          f = nextExec /\ \E state \in TaskState, id \in TaskIdInputs : Add(state, id)

C6_RemoveFrame == [][C6_Step]_vars

\* the middle of three tasks was removed, the other two are still there
C6_Witness ==
    /\ res = Called("remove", OkRes(0))
    /\ SIZE = 3
    /\ IsNone(tasks[1])
    /\ IsSome(tasks[0]) /\ IsSome(tasks[2])

(***************************************************************************)
(* C7: every occupied slot i holds a task whose id field equals i.         *)
(***************************************************************************)
C7_TaskIdIsSlotIndex ==
    \A i \in Occupied(tasks) : Unwrap(tasks[i]).id = i

(***************************************************************************)
(* Helpers of the timer properties                                         *)
(***************************************************************************)
Expired(tm, h) ==
    IsSome(tm[h]) /\ Unwrap(tm[h]).state = "Running" /\ Unwrap(tm[h]).counter = 0

\* the step is a call that starts, restarts, stops, disables or deletes h
Rearms(h) ==
    /\ res'.call \in {"start", "restart", "stop", "disable", "delete"}
    /\ \/ \E threshold \in ThresholdInputs, auto_restart \in BOOLEAN :
             Start(h, threshold, auto_restart)
       \/ Restart(h)
       \/ Stop(h)
       \/ Disable(h)
       \/ Delete(h)

(***************************************************************************)
(* C8: a read of a timer's signal state returns Signaled exactly when the  *)
(* timer is Running with counter 0; for a timer without auto_restart the   *)
(* read leaves the counter at 0, and the timer stays Running at counter 0  *)
(* (so every later read is Signaled again) until it is started, restarted, *)
(* stopped, disabled or deleted.                                           *)
(***************************************************************************)
C8_Step ==
    /\ (res'.call = "get_signal_state" /\ res'.ret.ok) =>
          \A h \in HandleInputs :
              GetSignalState(h) =>
                  LET data == Unwrap(timer[h])
                      read == res'.ret.val
                  IN  /\ read.signal \in {"Signaled", "NotSignaled"}
                      /\ read.signal = "Signaled" <=>
                            (data.state = "Running" /\ data.counter = 0)
                      /\ (read.signal = "Signaled" /\ ~data.auto_restart) =>
                            /\ read.data.counter = 0
                            /\ Unwrap(timer'[h]).counter = 0
    /\ timer' # timer =>
          \A h \in Handles :
              (Expired(timer, h) /\ ~Unwrap(timer[h]).auto_restart /\ ~Rearms(h))
                  => Expired(timer', h)

C8_SignalState == [][C8_Step]_vars

\* a timer started with threshold 2 and no auto restart ran out and read Signaled
C8_Witness ==
    /\ res.call = "get_signal_state"
    /\ res.ret.ok
    /\ res.ret.val.signal = "Signaled"
    /\ res.ret.val.data.threshold = 2
    /\ ~res.ret.val.data.auto_restart
    /\ res.ret.val.data.counter = 0

(***************************************************************************)
(* C9: a signal-state read of a Running auto-restart timer of the registry *)
(* whose counter is 0 returns Signaled and reloads that timer's counter to *)
(* its threshold.                                                          *)
(***************************************************************************)
C9_Step ==
    \A h \in Handles :
        (/\ res'.call = "get_signal_state"
         /\ Expired(timer, h) /\ Unwrap(timer[h]).auto_restart
         /\ GetSignalState(h)) =>
            /\ res'.ret.ok
            /\ res'.ret.val.signal = "Signaled"
            /\ Unwrap(timer'[h]).counter = Unwrap(timer[h]).threshold

C9_AutoRestartReload == [][C9_Step]_vars

(***************************************************************************)
(* C10: one update() decrements by exactly 1 the counter of every occupied *)
(* timer that is Running with counter > 0 and changes nothing else:        *)
(* counters at 0 stay 0, Stopped and Disabled timers keep their counter,   *)
(* and no state, threshold, auto_restart or slot occupancy changes.        *)
(***************************************************************************)
C10_Step ==
    res'.call = "update" =>
        \A h \in Handles :
            /\ IsSome(timer'[h]) <=> IsSome(timer[h])
            /\ IsSome(timer[h]) =>
                  LET old == Unwrap(timer[h])
                      new == Unwrap(timer'[h])
                  IN  /\ new.state = old.state
                      /\ new.threshold = old.threshold
                      /\ new.auto_restart = old.auto_restart
                      /\ (old.state = "Running" /\ old.counter > 0)
                            => new.counter = old.counter - 1
                      /\ (old.state # "Running" \/ old.counter = 0)
                            => new.counter = old.counter

C10_UpdateFrame == [][C10_Step]_vars

\* an update() counted a Running timer down from 2 to 1 and left a Stopped
\* one at its threshold
C10_Witness ==
    /\ res.call = "update"
    /\ \E h \in Handles :
          /\ IsSome(timer[h])
          /\ Unwrap(timer[h]).state = "Running"
          /\ Unwrap(timer[h]).threshold = 2
          /\ Unwrap(timer[h]).counter = 1
    /\ \E h \in Handles :
          /\ IsSome(timer[h])
          /\ Unwrap(timer[h]).state = "Stopped"
          /\ Unwrap(timer[h]).threshold = 2
          /\ Unwrap(timer[h]).counter = 2

(***************************************************************************)
(* Helpers of the countdown properties                                     *)
(***************************************************************************)
Max(a, b) == IF a >= b THEN a ELSE b

\* start(h, n, false) was called and only update() and reads came after it
CountsDown(hs, h) ==
    IsSome(hs[h]) /\ Unwrap(hs[h]).alone /\ ~Unwrap(hs[h]).auto

(***************************************************************************)
(* C11: after start(h, n, false) and k update() calls with no other        *)
(* operation on h the counter of h is max(n - k, 0) (for n = 3: 2, 1, 0,   *)
(* 0), and a read of the signal state of h returns NotSignaled when k < n  *)
(* and Signaled when k >= n.                                               *)
(***************************************************************************)
C11_Step ==
    /\ \A h \in Handles :
          CountsDown(hist', h) =>
              /\ IsSome(timer'[h])
              /\ Unwrap(timer'[h]).counter =
                    Max(Unwrap(hist'[h]).n - Unwrap(hist'[h]).k, 0)
    /\ res'.call = "get_signal_state" =>
          \A h \in CountdownHandles :
              (CountsDown(hist, h) /\ GetSignalState(h)) =>
                  /\ res'.ret.ok
                  /\ Unwrap(hist[h]).k < Unwrap(hist[h]).n
                        => res'.ret.val.signal = "NotSignaled"
                  /\ Unwrap(hist[h]).k >= Unwrap(hist[h]).n
                        => res'.ret.val.signal = "Signaled"

C11_Countdown == [][C11_Step]_vars

\* timer 1 was started with threshold 3 and no auto restart, ticked four
\* times and then read Signaled with its counter at 0
C11_Witness ==
    /\ res.call = "get_signal_state"
    /\ res.ret.ok
    /\ res.ret.val.signal = "Signaled"
    /\ res.ret.val.data.threshold = 3
    /\ hist[1] = Some([n |-> 3, auto |-> FALSE, k |-> 4, alone |-> TRUE, off |-> FALSE])
    /\ Unwrap(timer[1]).counter = 0
    /\ IsSome(timer[0]) /\ Unwrap(timer[0]).threshold # 3

(***************************************************************************)
(* Helpers of the timer state properties                                   *)
(***************************************************************************)
Inert(tm, h) == IsSome(tm[h]) /\ Unwrap(tm[h]).state \in {"Stopped", "Disabled"}

(***************************************************************************)
(* C12: a timer that is Stopped or Disabled is inert: update() leaves its  *)
(* counter (and everything else of it) unchanged, a read of its signal     *)
(* state returns NotSignaled even when its counter is 0, and it becomes    *)
(* Running only through a successful start() or restart() on its handle.   *)
(***************************************************************************)
C12_Step ==
    /\ res'.call = "update" =>
          \A h \in Handles : Inert(timer, h) => timer'[h] = timer[h]
    /\ (res'.call = "get_signal_state" /\ res'.ret.ok) =>
          \A h \in HandleInputs :
              (GetSignalState(h) /\ Inert(timer, h)) =>
                  /\ res'.ret.val.signal = "NotSignaled"
                  /\ timer'[h] = timer[h]
    /\ timer' # timer =>
          \A h \in Handles :
              (/\ Inert(timer, h)
               /\ IsSome(timer'[h])
               /\ Unwrap(timer'[h]).state = "Running") =>
                  /\ res'.call \in {"start", "restart"}
                  /\ res'.ret.ok
                  /\ \/ Restart(h)
                     \/ \E threshold \in ThresholdInputs, auto_restart \in BOOLEAN :
                           Start(h, threshold, auto_restart)

C12_StoppedInert == [][C12_Step]_vars

\* a timer started with threshold 2 ran out, was stopped and read NotSignaled
\* with its counter at 0
C12_Witness ==
    /\ res.call = "get_signal_state"
    /\ res.ret.ok
    /\ res.ret.val.signal = "NotSignaled"
    /\ res.ret.val.data.state = "Stopped"
    /\ res.ret.val.data.threshold = 2
    /\ res.ret.val.data.counter = 0

(***************************************************************************)
(* C13: start(h, threshold, auto_restart) on an existing timer, whatever   *)
(* its state and counter, returns Ok and leaves the timer Running with     *)
(* threshold and counter equal to the given threshold and auto_restart     *)
(* equal to the given flag; every other timer is unchanged.                *)
(***************************************************************************)
C13_Step ==
    res'.call = "start" =>
        \A h \in HandleInputs, threshold \in ThresholdInputs, auto_restart \in BOOLEAN :
            (/\ h < MAX_SOFT_COUNTER /\ IsSome(timer[h])
             /\ Start(h, threshold, auto_restart)) =>
                /\ res'.ret = OkRes(0)
                /\ timer'[h] = Some([state        |-> "Running",
                                     counter      |-> threshold,
                                     threshold    |-> threshold,
                                     auto_restart |-> auto_restart])
                /\ \A g \in Handles \ {h} : timer'[g] = timer[g]

C13_StartSetsAll == [][C13_Step]_vars

\* a start with threshold 0 and auto restart succeeded next to a Stopped timer
\* that still holds its threshold 2
C13_Witness ==
    /\ res = Called("start", OkRes(0))
    /\ \E h \in Handles :
          timer[h] = Some([state |-> "Running", counter |-> 0, threshold |-> 0,
                           auto_restart |-> TRUE])
    /\ \E h \in Handles :
          /\ IsSome(timer[h])
          /\ Unwrap(timer[h]).state = "Stopped"
          /\ Unwrap(timer[h]).threshold = 2

(***************************************************************************)
(* C14: restart(h) on an existing timer returns Ok, reloads the counter to *)
(* the threshold that the most recent start(h, n, _) stored (n, whatever   *)
(* the counter was), sets the state to Running and leaves threshold,       *)
(* auto_restart and every other timer unchanged.                           *)
(***************************************************************************)
C14_Step ==
    res'.call = "restart" =>
        \A h \in CountdownHandles :
            (IsSome(timer[h]) /\ CountdownRestart(h)) =>
                LET old == Unwrap(timer[h])
                    new == Unwrap(timer'[h])
                IN  /\ res'.ret = OkRes(0)
                    /\ IsSome(timer'[h])
                    /\ new.counter = old.threshold
                    /\ IsSome(hist[h]) => new.counter = Unwrap(hist[h]).n
                    /\ new.state = "Running"
                    /\ new.threshold = old.threshold
                    /\ new.auto_restart = old.auto_restart
                    /\ \A g \in Handles \ {h} : timer'[g] = timer[g]

C14_RestartReloads == [][C14_Step]_vars

\* timers started with thresholds 3 and 1 were ticked three times, down to 0,
\* and read 3 and 1 again after their restart
C14_Witness ==
    /\ res = Called("restart", OkRes(0))
    /\ hist[0] = Some([n |-> 3, auto |-> TRUE, k |-> 3, alone |-> FALSE, off |-> FALSE])
    /\ hist[1] = Some([n |-> 1, auto |-> TRUE, k |-> 3, alone |-> FALSE, off |-> FALSE])
    /\ Unwrap(timer[0]).counter = 3
    /\ Unwrap(timer[1]).counter = 1

(***************************************************************************)
(* C15: the stored counter of a timer changes only by update() (to one     *)
(* less) or by a reload to the threshold (start, restart, or a read of the *)
(* signal state); stop(), disable() and get() change no timer's counter,   *)
(* threshold or auto_restart, get() changes nothing of the registry and    *)
(* returns the stored values, so get() of an expired timer reads counter 0 *)
(* and leaves it expired.                                                  *)
(***************************************************************************)
C15_Step ==
    /\ timer' # timer =>
          \A h \in Handles :
              (/\ IsSome(timer[h]) /\ IsSome(timer'[h])
               /\ Unwrap(timer'[h]).counter # Unwrap(timer[h]).counter) =>
                  \/ /\ res'.call = "update"
                     /\ Unwrap(timer[h]).counter > 0
                     /\ Unwrap(timer'[h]).counter = Unwrap(timer[h]).counter - 1
                  \/ /\ res'.call \in {"start", "restart", "get_signal_state"}
                     /\ Unwrap(timer'[h]).counter = Unwrap(timer'[h]).threshold
    /\ res'.call \in {"stop", "disable", "timer_get"} =>
          \A h \in Handles :
              /\ IsSome(timer'[h]) <=> IsSome(timer[h])
              /\ IsSome(timer[h]) =>
                    /\ Unwrap(timer'[h]).counter = Unwrap(timer[h]).counter
                    /\ Unwrap(timer'[h]).threshold = Unwrap(timer[h]).threshold
                    /\ Unwrap(timer'[h]).auto_restart = Unwrap(timer[h]).auto_restart
    /\ res'.call = "timer_get" =>
          /\ timer' = timer
          /\ \A h \in HandleInputs :
                (TimerGet(h) /\ res'.ret.ok) =>
                    /\ res'.ret.val = Unwrap(timer[h])
                    /\ Expired(timer, h) =>
                          res'.ret.val.counter = 0 /\ Expired(timer', h)

C16_Step ==
    res'.call = "create" =>
        LET empty == {h \in Handles : IsNone(timer[h])}
        IN  IF empty # {}
            THEN LET m == CHOOSE h \in empty : \A g \in empty : h <= g
                 IN  /\ res'.ret = OkRes(m)
                     /\ timer'[m] = Some([state        |-> "Disabled",
                                          counter      |-> 0,
                                          threshold    |-> 0,
                                          auto_restart |-> FALSE])
                     /\ \A g \in Handles \ {m} : timer'[g] = timer[g]
            ELSE /\ res'.ret = ErrRes("LimitExceeded")
                 /\ timer' = timer

C16_CreateLowestFree == [][C16_Step]_vars

\* a create() was refused by a registry whose 16 slots are occupied, the
\* first and the last by timers that were started
C16_Witness ==
    /\ res = Called("create", ErrRes("LimitExceeded"))
    /\ \A h \in Handles : IsSome(timer[h])
    /\ Unwrap(timer[0]).state = "Running"
    /\ Unwrap(timer[MAX_SOFT_COUNTER - 1]).state = "Running"

(***************************************************************************)
(* C17: get(handle) returns Err(InvalidParameter) when handle is out of    *)
(* range (handle >= MAX_SOFT_COUNTER), Err(NoSuchTimer) when the handle is *)
(* in range and its slot is empty, and otherwise a snapshot equal to the   *)
(* slot's state, counter, threshold and auto_restart.                      *)
(***************************************************************************)
C17_Step ==
    res'.call = "timer_get" =>
        \A h \in HandleInputs :
            TimerGet(h) =>
                /\ h >= MAX_SOFT_COUNTER => res'.ret = ErrRes("InvalidParameter")
                /\ (h < MAX_SOFT_COUNTER /\ IsNone(timer[h])) =>
                      res'.ret = ErrRes("NoSuchTimer")
                /\ (h < MAX_SOFT_COUNTER /\ IsSome(timer[h])) =>
                      res'.ret = OkRes(Unwrap(timer[h]))

C17_GetErrors == [][C17_Step]_vars

(***************************************************************************)
(* C18: start, restart, stop and disable return Err(InvalidParameter) for  *)
(* a handle >= MAX_SOFT_COUNTER and Err(NoSuchTimer) for a handle in range *)
(* whose slot is empty; in both cases no timer of the registry changes.    *)
(***************************************************************************)
C18_Step ==
    res'.call \in {"start", "restart", "stop", "disable"} =>
        \A h \in HandleInputs :
            (/\ h >= MAX_SOFT_COUNTER \/ IsNone(timer[h])
             /\ \/ \E threshold \in ThresholdInputs, auto_restart \in BOOLEAN :
                      Start(h, threshold, auto_restart)
                \/ Restart(h)
                \/ Stop(h)
                \/ Disable(h)) =>
                /\ h >= MAX_SOFT_COUNTER =>
                      res'.ret = ErrRes("InvalidParameter") /\ timer' = timer
                /\ h < MAX_SOFT_COUNTER =>
                      res'.ret = ErrRes("NoSuchTimer") /\ timer' = timer

C18_ModifyErrors == [][C18_Step]_vars

\* a disable of handle 0, whose timer was deleted, was refused while the timer
\* of handle 1 is still there
C18_Witness ==
    /\ res = Called("disable", ErrRes("NoSuchTimer"))
    /\ IsNone(timer[0])
    /\ IsSome(timer[1])

(***************************************************************************)
(* C19: delete(handle) of an occupied slot returns Ok and empties that     *)
(* slot only; every call on a handle whose slot is empty fails; delete of  *)
(* an empty slot in range returns Err(NoSuchTimer) and delete of a handle  *)
(* >= MAX_SOFT_COUNTER returns Err(InvalidParameter), both without         *)
(* changing the registry.                                                  *)
(***************************************************************************)
C19_Step ==
    /\ res'.call = "delete" =>
          \A h \in HandleInputs :
              Delete(h) =>
                  /\ (h < MAX_SOFT_COUNTER /\ IsSome(timer[h])) =>
                        /\ res'.ret = OkRes(0)
                        /\ IsNone(timer'[h])
                        /\ \A g \in Handles \ {h} : timer'[g] = timer[g]
                  /\ (h < MAX_SOFT_COUNTER /\ IsNone(timer[h])) =>
                        res'.ret = ErrRes("NoSuchTimer") /\ timer' = timer
                  /\ h >= MAX_SOFT_COUNTER =>
                        res'.ret = ErrRes("InvalidParameter") /\ timer' = timer
    /\ res'.call \in {"start", "restart", "stop", "disable", "timer_get", "delete"} =>
          \A h \in HandleInputs :
              (/\ h < MAX_SOFT_COUNTER /\ IsNone(timer[h])
               /\ \/ \E threshold \in ThresholdInputs, auto_restart \in BOOLEAN :
                        Start(h, threshold, auto_restart)
                  \/ Restart(h) \/ Stop(h) \/ Disable(h) \/ TimerGet(h) \/ Delete(h))
                  => ~res'.ret.ok /\ timer' = timer

C19_DeleteErrors == [][C19_Step]_vars

(***************************************************************************)
(* Helpers of the disable properties                                       *)
(***************************************************************************)
\* disable(h) was called on the started timer h, which is still Disabled
ExplicitlyDisabled(h) ==
    /\ IsSome(hist[h]) /\ Unwrap(hist[h]).off
    /\ IsSome(timer[h]) /\ Unwrap(timer[h]).state = "Disabled"

\* the step is a start() or a restart() on handle h
StartsOrRestarts(h) ==
    /\ res'.call \in {"start", "restart"}
    /\ \/ CountdownRestart(h)
       \/ \E threshold \in CountdownThresholds, auto_restart \in BOOLEAN :
             CountdownStart(h, threshold, auto_restart)

(***************************************************************************)
(* C20 as stated: start() or restart() on a timer that was disabled with   *)
(* disable() fails with the Disabled error and leaves the timer Disabled   *)
(* with its counter, threshold and auto_restart unchanged.                 *)
(***************************************************************************)
C20_Original_Step ==
    \A h \in DisableHandles :
        (ExplicitlyDisabled(h) /\ StartsOrRestarts(h)) =>
            /\ res'.ret = ErrRes("Disabled")
            /\ timer'[h] = timer[h]

C20_DisabledRefused == [][C20_Original_Step]_vars

(***************************************************************************)
(* C20 as amended: start() or restart() on a timer in state Disabled,      *)
(* whether create() or disable() left it so, returns Ok and leaves it      *)
(* Running with its counter reloaded (start: threshold, counter and        *)
(* auto_restart as given; restart: counter to the stored threshold,        *)
(* threshold and auto_restart unchanged); no call returns the Disabled     *)
(* error.                                                                  *)
(***************************************************************************)
C20_Step ==
    /\ res'.ret.ok \/ res'.ret.err # "Disabled"
    /\ res'.call = "restart" =>
          \A h \in DisableHandles :
              (/\ IsSome(timer[h]) /\ Unwrap(timer[h]).state = "Disabled"
               /\ CountdownRestart(h)) =>
                  /\ res'.ret = OkRes(0)
                  /\ timer'[h] = Some([Unwrap(timer[h]) EXCEPT
                                          !.state = "Running",
                                          !.counter = Unwrap(timer[h]).threshold])
    /\ res'.call = "start" =>
          \A h \in DisableHandles, threshold \in CountdownThresholds,
             auto_restart \in BOOLEAN :
              (/\ IsSome(timer[h]) /\ Unwrap(timer[h]).state = "Disabled"
               /\ CountdownStart(h, threshold, auto_restart)) =>
                  /\ res'.ret = OkRes(0)
                  /\ timer'[h] = Some([state        |-> "Running",
                                       counter      |-> threshold,
                                       threshold    |-> threshold,
                                       auto_restart |-> auto_restart])

C20_DisabledStarts == [][C20_Step]_vars

\* a timer started with threshold 3 was ticked, disabled with disable() and
\* restarted: the restart returned Ok and the timer runs from 3 again
C20_Witness ==
    /\ res = Called("restart", OkRes(0))
    /\ \E h \in DisableHandles :
          /\ IsSome(hist[h])
          /\ Unwrap(hist[h]).n = 3
          /\ Unwrap(hist[h]).k > 0
          /\ Unwrap(hist[h]).off
          /\ timer[h] = Some([state |-> "Running", counter |-> 3, threshold |-> 3,
                              auto_restart |-> FALSE])

(***************************************************************************)
(* C22: suspend() leaves the task Suspended and resume() leaves it Running *)
(* from each of Running, Suspended and Waiting; a suspend() of a Suspended *)
(* task and a resume() of a Running task change nothing (calling twice is  *)
(* calling once); neither changes the id or the behaviour of the task, any *)
(* other task, nor invokes a behaviour (the call returns no execute list). *)
(***************************************************************************)
C22_Step ==
    /\ res'.call = "suspend" =>
          \A id \in IdInputs :
              (id < SIZE /\ IsSome(tasks[id]) /\ Suspend(id)) =>
                  LET old == Unwrap(tasks[id])
                      new == Unwrap(tasks'[id])
                  IN  /\ res'.ret = OkRes(id)
                      /\ new.state = "Suspended"
                      /\ new.id = old.id
                      /\ new.func = old.func
                      /\ old.state = "Suspended" => tasks' = tasks
                      /\ \A j \in Slots \ {id} : tasks'[j] = tasks[j]
    /\ res'.call = "resume" =>
          \A id \in IdInputs :
              (id < SIZE /\ IsSome(tasks[id]) /\ Resume(id)) =>
                  LET old == Unwrap(tasks[id])
                      new == Unwrap(tasks'[id])
                  IN  /\ res'.ret = OkRes(id)
                      /\ new.state = "Running"
                      /\ new.id = old.id
                      /\ new.func = old.func
                      /\ old.state = "Running" => tasks' = tasks
                      /\ \A j \in Slots \ {id} : tasks'[j] = tasks[j]

C22_SuspendResume == [][C22_Step]_vars

\* task 1 was suspended, it kept its id and its behaviour, and the tasks
\* next to it are still Waiting and Running
C22_Witness ==
    /\ res = Called("suspend", OkRes(1))
    /\ SIZE = 3
    /\ tasks[1] = Some([state |-> "Suspended", id |-> INVALID_ID, func |-> 2])
    /\ IsSome(tasks[0]) /\ Unwrap(tasks[0]).state = "Waiting"
    /\ IsRunning(tasks, 2)

(***************************************************************************)
(* C23: in every state reached by create, delete, start, restart, stop,    *)
(* disable, update and get called one after the other, every occupied      *)
(* timer slot has 0 <= counter <= threshold.                               *)
(***************************************************************************)
C23_CounterInRange ==
    \A h \in Handles :
        IsSome(timer[h]) =>
            /\ 0 <= Unwrap(timer[h]).counter
            /\ Unwrap(timer[h]).counter <= Unwrap(timer[h]).threshold

\* an update() found one Running timer already at 0 and counted another
\* one down from 2 to 1
C23_Witness ==
    /\ res.call = "update"
    /\ \E h, g \in Handles :
          /\ timer[h] = Some([state |-> "Running", counter |-> 0, threshold |-> 0,
                              auto_restart |-> FALSE])
          /\ timer[g] = Some([state |-> "Running", counter |-> 1, threshold |-> 2,
                              auto_restart |-> FALSE])

(***************************************************************************)
(* C24: restart(h) on a timer that was created and never started returns   *)
(* Ok and leaves it Running with counter 0 and threshold 0; a timer that   *)
(* is Running with threshold 0 (after that restart, or after               *)
(* start(h, 0, _)) reads Signaled on every read of its signal state,       *)
(* whatever its auto_restart, with no update() needed, and neither the     *)
(* read nor an update() nor a restart() ends that.                         *)
(***************************************************************************)
C24_Step ==
    /\ res'.call = "restart" =>
          \A h \in DisableHandles :
              (IsSome(timer[h]) /\ IsNone(hist[h]) /\ CountdownRestart(h)) =>
                  /\ res'.ret = OkRes(0)
                  /\ timer'[h] = Some([state        |-> "Running",
                                       counter      |-> 0,
                                       threshold    |-> 0,
                                       auto_restart |-> FALSE])
    /\ \A h \in DisableHandles :
          (/\ IsSome(timer[h])
           /\ Unwrap(timer[h]).state = "Running"
           /\ Unwrap(timer[h]).threshold = 0) =>
              /\ Unwrap(timer[h]).counter = 0
              /\ (res'.call = "get_signal_state" /\ GetSignalState(h)) =>
                    /\ res'.ret.ok
                    /\ res'.ret.val.signal = "Signaled"
                    /\ res'.ret.val.data.counter = 0
              /\ res'.call \in {"get_signal_state", "update", "restart", "create"} =>
                    timer'[h] = timer[h]

C24_ZeroThresholdSignals == [][C24_Step]_vars

\* the timer was created, never started, restarted and then read Signaled
C24_Witness ==
    /\ res.call = "get_signal_state"
    /\ res.ret.ok
    /\ res.ret.val.signal = "Signaled"
    /\ \E h \in DisableHandles :
          /\ IsNone(hist[h])
          /\ timer[h] = Some([state |-> "Running", counter |-> 0, threshold |-> 0,
                              auto_restart |-> FALSE])

(***************************************************************************)
(* C21: with a tick thread in update() and application threads in start(), *)
(* restart() and reads of the signal state of the same timer, interleaved  *)
(* access by access, the decrement never underflows: the counter never     *)
(* wraps below zero to a huge value and stays within 0..threshold.         *)
(* (Between the two stores of one start() the counter still holds the old  *)
(* count next to the new threshold; that moment is not counted here.)      *)
(***************************************************************************)
C21_NoUnderflow ==
    conc.pc["app"] # "counter" =>
        /\ 0 <= RaceData.counter
        /\ RaceData.counter <= RaceData.threshold

====
